---- MODULE Spec2Model ----
(***************************************************************************)
(* A model of the Redis cache repository of go-stdlib:                     *)
(*   - the serialization helpers (isPrimitiveType, serialize, deserialize) *)
(*   - CachePipeline, the chainable command builder with a sticky error    *)
(*   - abstractCacheRepositoryImpl, the default cache repository           *)
(* Texts (the bytes Redis stores) are sequences of one-character strings,  *)
(* so that formatting and parsing are computed, character by character.    *)
(***************************************************************************)
EXTENDS Integers, Sequences, FiniteSets, TLC

(***************************************************************************)
(* Bounds of the model.                                                    *)
(***************************************************************************)
\* builder calls made on the pipeline between two executions
MaxCalls == 2
\* commands another client gets applied while one batch is in flight
MaxOther == 1
\* nested calls after which the Go runtime gives up (stack overflow)
MaxStack == 3
\* scan calls one GetKeysByPatterns or HScan makes at most: the store
\* ends its iteration by then
MaxRounds == 3

Nil == "<nil>"

(***************************************************************************)
(* Go values.  A value is a record [t |-> dynamic type, v |-> payload].    *)
(*   string   : v is the text, a sequence of characters                    *)
(*   int      : v is the integer                                           *)
(*   float64  : v is the number in tenths (15 is 1.5)                      *)
(*   bool     : v is a BOOLEAN                                             *)
(*   bytes    : v is the sequence of byte values ([]byte)                  *)
(*   struct   : v is the field A of  struct{ A int }                       *)
(*   ptr      : v is <<>> (a nil pointer) or <<a>>, a the pointee          *)
(*   chan     : a channel, which no encoder accepts                        *)
(***************************************************************************)
StringV(s) == [t |-> "string", v |-> s]
IntV(n) == [t |-> "int", v |-> n]
FloatV(tenths) == [t |-> "float64", v |-> tenths]
BoolV(b) == [t |-> "bool", v |-> b]
BytesV(b) == [t |-> "bytes", v |-> b]
StructV(a) == [t |-> "struct", v |-> a]
PtrV(a) == [t |-> "ptr", v |-> a]
ChanV == [t |-> "chan", v |-> 0]

(***************************************************************************)
(* Text formatting, as fmt.Sprintf("%v", value) and sonic.Marshal do it.   *)
(***************************************************************************)
Digit(d) ==
  CASE d = 0 -> "0" [] d = 1 -> "1" [] d = 2 -> "2" [] d = 3 -> "3"
    [] d = 4 -> "4" [] d = 5 -> "5" [] d = 6 -> "6" [] d = 7 -> "7"
    [] d = 8 -> "8" [] d = 9 -> "9"

RECURSIVE NatText(_)
NatText(n) == IF n < 10 THEN <<Digit(n)>> ELSE NatText(n \div 10) \o <<Digit(n % 10)>>

IntText(n) == IF n < 0 THEN <<"-">> \o NatText(0 - n) ELSE NatText(n)

\* %v of a float64 is the shortest decimal form: 1.5 -> "1.5", 2.0 -> "2"
FloatText(tenths) ==
  LET a == IF tenths < 0 THEN 0 - tenths ELSE tenths
      sign == IF tenths < 0 THEN <<"-">> ELSE <<>>
  IN sign \o NatText(a \div 10)
          \o (IF a % 10 = 0 THEN <<>> ELSE <<".", Digit(a % 10)>>)

BoolText(b) == IF b THEN <<"t", "r", "u", "e">> ELSE <<"f", "a", "l", "s", "e">>

\* %v of a []byte prints the byte values between brackets, separated by spaces
RECURSIVE BytesBody(_)
BytesBody(b) ==
  IF b = <<>> THEN <<>>
  ELSE IF Len(b) = 1 THEN NatText(b[1])
  ELSE NatText(b[1]) \o <<" ">> \o BytesBody(Tail(b))

BytesText(b) == <<"[">> \o BytesBody(b) \o <<"]">>

\* JSON of struct{ A int }
ObjectText(a) == <<"{", "\"", "A", "\"", ":">> \o IntText(a) \o <<"}">>

NullText == <<"n", "u", "l", "l">>

Sprintf(value) ==
  CASE value.t = "string" -> value.v
    [] value.t = "int" -> IntText(value.v)
    [] value.t = "float64" -> FloatText(value.v)
    [] value.t = "bool" -> BoolText(value.v)
    [] value.t = "bytes" -> BytesText(value.v)

ErrUnsupported == "sonic: unsupported type"

\* sonic.Marshal: JSON for the values that are not primitive
Marshal(value) ==
  CASE value.t = "struct" -> [data |-> ObjectText(value.v), err |-> Nil]
    [] value.t = "ptr" ->
         [data |-> IF value.v = <<>> THEN NullText ELSE ObjectText(value.v[1]), err |-> Nil]
    [] value.t = "string" -> [data |-> <<"\"">> \o value.v \o <<"\"">>, err |-> Nil]
    [] value.t = "int" -> [data |-> IntText(value.v), err |-> Nil]
    [] value.t = "float64" -> [data |-> FloatText(value.v), err |-> Nil]
    [] value.t = "bool" -> [data |-> BoolText(value.v), err |-> Nil]
    [] value.t = "chan" -> [data |-> <<>>, err |-> ErrUnsupported]

isPrimitiveType(value) == value.t \in {"string", "int", "float64", "bool", "bytes"}

serialize(value) ==
  IF isPrimitiveType(value) THEN [data |-> Sprintf(value), err |-> Nil]
  ELSE Marshal(value)

(***************************************************************************)
(* Parsing, as sonic.Unmarshal does it.  Json(data) is the JSON value the  *)
(* text holds: [k |-> kind, n |-> number in tenths, s |-> string text,     *)
(* b |-> boolean].  The model reads numbers with at most one decimal and   *)
(* objects of the shape {"A":number}; the texts of the model are of these  *)
(* shapes or are no JSON at all.                                           *)
(***************************************************************************)
DigitChars == {"0", "1", "2", "3", "4", "5", "6", "7", "8", "9"}

DigitVal(c) ==
  CASE c = "0" -> 0 [] c = "1" -> 1 [] c = "2" -> 2 [] c = "3" -> 3
    [] c = "4" -> 4 [] c = "5" -> 5 [] c = "6" -> 6 [] c = "7" -> 7
    [] c = "8" -> 8 [] c = "9" -> 9

RECURSIVE DigitsVal(_)
DigitsVal(s) ==
  IF s = <<>> THEN 0
  ELSE 10 * DigitsVal(SubSeq(s, 1, Len(s) - 1)) + DigitVal(s[Len(s)])

AllDigits(s) == s # <<>> /\ \A i \in 1..Len(s) : s[i] \in DigitChars

\* the integer part of a JSON number: digits without a leading zero
IsJsonInt(s) == AllDigits(s) /\ (Len(s) = 1 \/ s[1] # "0")

JsonValue(k, n, str, b) == [k |-> k, n |-> n, s |-> str, b |-> b]

JsonInvalid == JsonValue("invalid", 0, <<>>, FALSE)

\* an unsigned JSON number, in tenths, or -1 when s is none
UnsignedTenths(s) ==
  LET dots == {i \in 1..Len(s) : s[i] = "."}
  IN IF dots = {} THEN (IF IsJsonInt(s) THEN 10 * DigitsVal(s) ELSE -1)
     ELSE IF Cardinality(dots) > 1 THEN -1
     ELSE LET d == CHOOSE i \in dots : TRUE
              whole == SubSeq(s, 1, d - 1)
              frac == SubSeq(s, d + 1, Len(s))
          IN IF IsJsonInt(whole) /\ AllDigits(frac) /\ Len(frac) = 1
             THEN 10 * DigitsVal(whole) + DigitsVal(frac)
             ELSE -1

IsNegative(s) == s # <<>> /\ s[1] = "-"

\* the number of sign neg and magnitude u, u < 0 meaning no number
SignedTenths(neg, u) ==
  IF u < 0 THEN JsonInvalid
  ELSE JsonValue("num", IF neg THEN 0 - u ELSE u, <<>>, FALSE)

JsonNumber(s) ==
  SignedTenths(IsNegative(s), UnsignedTenths(IF IsNegative(s) THEN Tail(s) ELSE s))

IsJsonString(s) ==
  /\ Len(s) >= 2
  /\ s[1] = "\"" /\ s[Len(s)] = "\""
  /\ \A i \in 2..(Len(s) - 1) : s[i] \notin {"\"", "\\"}

ObjectPrefix == <<"{", "\"", "A", "\"", ":">>

IsJsonObject(s) ==
  /\ Len(s) > Len(ObjectPrefix) + 1
  /\ SubSeq(s, 1, Len(ObjectPrefix)) = ObjectPrefix
  /\ s[Len(s)] = "}"
  /\ JsonNumber(SubSeq(s, Len(ObjectPrefix) + 1, Len(s) - 1)).k = "num"

Json(data) ==
  IF data = NullText THEN JsonValue("null", 0, <<>>, FALSE)
  ELSE IF data = BoolText(TRUE) THEN JsonValue("bool", 0, <<>>, TRUE)
  ELSE IF data = BoolText(FALSE) THEN JsonValue("bool", 0, <<>>, FALSE)
  ELSE IF IsJsonString(data) THEN JsonValue("str", 0, SubSeq(data, 2, Len(data) - 1), FALSE)
  ELSE IF IsJsonObject(data)
       THEN JsonValue("obj", JsonNumber(SubSeq(data, Len(ObjectPrefix) + 1, Len(data) - 1)).n,
                      <<>>, FALSE)
  ELSE JsonNumber(data)

\* Go types: the value types T of a repository, and "any"
ValueTypes == {"string", "int", "float64", "bool", "bytes", "struct", "ptr"}

\* var value T
Zero(T) ==
  CASE T = "string" -> StringV(<<>>)
    [] T = "int" -> IntV(0)
    [] T = "float64" -> FloatV(0)
    [] T = "bool" -> BoolV(FALSE)
    [] T = "bytes" -> BytesV(<<>>)
    [] T = "struct" -> StructV(0)
    [] T = "ptr" -> PtrV(<<>>)
    [] T = "any" -> [t |-> "nil", v |-> 0]

\* new(T): a pointer to a zero T, whatever T is
New(T) == PtrV(<<Zero(T).v>>)

ErrSyntax == "sonic: invalid JSON"
ErrMismatch == "sonic: JSON value does not fit the Go type"

\* map[string]any{"A": n}, what a JSON object decodes to in an any
ObjectV(tenths) == [t |-> "object", v |-> tenths]

\* the JSON value j stored into a Go value of type T
Decode(j, T) ==
  LET bad == [value |-> Zero(T), err |-> ErrMismatch]
      ok(v) == [value |-> v, err |-> Nil]
  IN IF j.k = "invalid" THEN [value |-> Zero(T), err |-> ErrSyntax]
     ELSE IF j.k = "null" THEN ok(Zero(T))
     ELSE CASE T = "string" -> IF j.k = "str" THEN ok(StringV(j.s)) ELSE bad
            [] T = "int" -> IF j.k = "num" /\ j.n % 10 = 0 THEN ok(IntV(j.n \div 10)) ELSE bad
            [] T = "float64" -> IF j.k = "num" THEN ok(FloatV(j.n)) ELSE bad
            [] T = "bool" -> IF j.k = "bool" THEN ok(BoolV(j.b)) ELSE bad
            \* a []byte is read from a base64 string, whole groups of four
            \* characters (the model holds no such string but the empty one)
            [] T = "bytes" -> IF j.k = "str" /\ j.s = <<>> THEN ok(BytesV(<<>>)) ELSE bad
            [] T = "struct" ->
                 IF j.k = "obj" /\ j.n % 10 = 0 THEN ok(StructV(j.n \div 10)) ELSE bad
            [] T = "ptr" ->
                 IF j.k = "obj" /\ j.n % 10 = 0 THEN ok(PtrV(<<j.n \div 10>>)) ELSE bad
            [] T = "any" ->
                 CASE j.k = "str" -> ok(StringV(j.s))
                   [] j.k = "num" -> ok(FloatV(j.n))
                   [] j.k = "bool" -> ok(BoolV(j.b))
                   [] j.k = "obj" -> ok(ObjectV(j.n))

\* sonic.Unmarshal(data, &value) with value of type T: the value left in
\* value, and the error
Unmarshal(data, T) == Decode(Json(data), T)

ErrDeserialize == "failed to deserialize value: "

\* the result u of Unmarshal as deserialize returns it
Wrapped(u) ==
  IF u.err # Nil
  THEN [value |-> u.value, err |-> ErrDeserialize \o u.err, panic |-> FALSE]
  ELSE [value |-> u.value, err |-> Nil, panic |-> FALSE]

\* deserialize[T](data, isPrimitive): with isPrimitive the text is asserted
\* to be a T, any(string(data)).(T), which panics unless T is string
deserialize(T, data, isPrimitive) ==
  IF isPrimitive
  THEN IF T = "string" THEN [value |-> StringV(data), err |-> Nil, panic |-> FALSE]
       ELSE [value |-> Zero(T), err |-> Nil, panic |-> TRUE]
  ELSE Wrapped(Unmarshal(data, T))

(***************************************************************************)
(* The Redis store behind redis.Client.  db maps a key to its entry        *)
(* [t, s, h]: t is "none", "string" or "hash", s the text of a string      *)
(* entry, h the set of <<field, text>> pairs of a hash entry.  Every call  *)
(* may fail (fail = TRUE: the round trip is lost, nothing is applied).     *)
(***************************************************************************)
ErrStore == "store: round trip failed"
ErrKeyField == "key and field must not be empty"
RedisNil == "redis: nil"
ErrWrongType == "WRONGTYPE Operation against a key holding the wrong kind of value"

Entry(t, str, h) == [t |-> t, s |-> str, h |-> h]

NoEntry == Entry("none", <<>>, {})

HasField(e, field) == e.t = "hash" /\ \E pr \in e.h : pr[1] = field

FieldText(e, field) == (CHOOSE pr \in e.h : pr[1] = field)[2]

Client_Get(db, key, fail) ==
  IF fail THEN [val |-> <<>>, err |-> ErrStore]
  ELSE CASE db[key].t = "none" -> [val |-> <<>>, err |-> RedisNil]
         [] db[key].t = "hash" -> [val |-> <<>>, err |-> ErrWrongType]
         [] db[key].t = "string" -> [val |-> db[key].s, err |-> Nil]

Client_Set(db, key, data, fail) ==
  IF fail THEN [db |-> db, err |-> ErrStore]
  ELSE [db |-> [db EXCEPT ![key] = Entry("string", data, {})], err |-> Nil]

Client_Del(db, key, fail) ==
  IF fail THEN [db |-> db, err |-> ErrStore]
  ELSE [db |-> [db EXCEPT ![key] = NoEntry], err |-> Nil]

Client_Exists(db, key, fail) ==
  IF fail THEN [n |-> 0, err |-> ErrStore]
  ELSE [n |-> IF db[key].t = "none" THEN 0 ELSE 1, err |-> Nil]

Client_HGet(db, key, field, fail) ==
  IF fail THEN [val |-> <<>>, err |-> ErrStore]
  ELSE IF db[key].t = "string" THEN [val |-> <<>>, err |-> ErrWrongType]
  ELSE IF ~HasField(db[key], field) THEN [val |-> <<>>, err |-> RedisNil]
  ELSE [val |-> FieldText(db[key], field), err |-> Nil]

\* HMGET answers one slot per field asked, nil for a field the hash lacks
Client_HMGet(db, key, fields, fail) ==
  IF fail THEN [vals |-> <<>>, err |-> ErrStore]
  ELSE IF db[key].t = "string" THEN [vals |-> <<>>, err |-> ErrWrongType]
  ELSE [vals |-> [i \in 1..Len(fields) |->
                    IF HasField(db[key], fields[i])
                    THEN [nil |-> FALSE, s |-> FieldText(db[key], fields[i])]
                    ELSE [nil |-> TRUE, s |-> <<>>]],
        err |-> Nil]

Client_HGetAll(db, key, fail) ==
  IF fail THEN [map |-> {}, err |-> ErrStore]
  ELSE IF db[key].t = "string" THEN [map |-> {}, err |-> ErrWrongType]
  ELSE [map |-> db[key].h, err |-> Nil]

Client_HSet(db, key, field, data, fail) ==
  IF fail THEN [db |-> db, err |-> ErrStore]
  ELSE IF db[key].t = "string" THEN [db |-> db, err |-> ErrWrongType]
  ELSE [db |-> [db EXCEPT ![key] =
                  Entry("hash", <<>>,
                        {pr \in db[key].h : pr[1] # field} \cup {<<field, data>>})],
        err |-> Nil]

ErrArguments == "ERR wrong number of arguments for 'hmset' command"

\* HMSET of the <<field, text>> pairs; the store refuses a command that
\* names no field
Client_HMSet(db, key, pairs, fail) ==
  IF fail THEN [db |-> db, err |-> ErrStore]
  ELSE IF Len(pairs) = 0 THEN [db |-> db, err |-> ErrArguments]
  ELSE IF db[key].t = "string" THEN [db |-> db, err |-> ErrWrongType]
  ELSE [db |-> [db EXCEPT ![key] =
                  Entry("hash", <<>>,
                        {pr \in db[key].h : \A i \in 1..Len(pairs) : pr[1] # pairs[i][1]}
                          \cup {pairs[i] : i \in 1..Len(pairs)})],
        err |-> Nil]

Client_HExists(db, key, field, fail) ==
  IF fail THEN [b |-> FALSE, err |-> ErrStore]
  ELSE IF db[key].t = "string" THEN [b |-> FALSE, err |-> ErrWrongType]
  ELSE [b |-> HasField(db[key], field), err |-> Nil]

(***************************************************************************)
(* abstractCacheRepositoryImpl[T].  A repository is the record             *)
(* [T, client, ctx, isPrimitive, self]; self is "repo" (the repository     *)
(* itself), "embedding" (a concrete repository that embeds the default     *)
(* implementation and overrides nothing), "override" (a concrete           *)
(* repository with its own code for every method) or "nil".                *)
(***************************************************************************)
CreateCacheRepository(T, redisClient, ctx, self) ==
  [T |-> T, client |-> redisClient, ctx |-> ctx,
   isPrimitive |-> isPrimitiveType(New(T)), self |-> self]

\* Who serves a call made on the default implementation.  A method with
\* the self check forwards to repo.self unless self is the repository; a
\* nil self panics; an overriding self runs its own code; an embedding self
\* promotes the default method, which runs the self check again, one stack
\* frame deeper.
RECURSIVE Dispatch(_, _)
Dispatch(repo, depth) ==
  IF repo.self = "repo" THEN "default"
  ELSE IF repo.self = "nil" THEN "panic"
  ELSE IF repo.self = "override" THEN "override"
  ELSE IF depth >= MaxStack THEN "overflow"
  ELSE Dispatch(repo, depth + 1)

NilV == [t |-> "nil", v |-> 0]

\* &value: a pointer to a decoded any
RefV(value) == [t |-> "ref", v |-> <<value>>]

\* a map[string]any result: the set of its <<field, value>> pairs
MapV(pairs) == [t |-> "map", v |-> pairs]

\* What a call did: how it ended ("returned", "panic", "overflow"), the
\* value and error returned, the store calls made, the error of the store
\* call, and the store it leaves.
Result(outcome, value, err, calls, reply, db) ==
  [outcome |-> outcome, value |-> value, err |-> err, calls |-> calls,
   reply |-> reply, db |-> db]

Return(value, err, reply, db) == Result("returned", value, err, 1, reply, db)

\* the call never reached the default logic
Forwarded(repo, db) == Result(Dispatch(repo, 0), NilV, Nil, 0, Nil, db)

\* The store call of a method, res being what the method does from it on.
\* A nil client is dereferenced by the call: panic.  What the client does
\* with a nil context is its own business: it may dereference it, here when
\* the round trip is the one that goes wrong, or never look at it.
OnClient(repo, db, fail, res) ==
  IF res.calls = 0 THEN res
  ELSE IF repo.client = Nil \/ (repo.ctx = Nil /\ fail)
       THEN Result("panic", NilV, Nil, 0, Nil, db)
  ELSE res

\* Get, from the decoded text d on
Get_Decoded(d, r, db) ==
  IF d.panic THEN Result("panic", NilV, Nil, 1, r.err, db)
  ELSE IF d.err # Nil THEN Return(d.value, d.err, r.err, db)
  ELSE Return(d.value, Nil, r.err, db)

\* Get_Reply with redis.Nil returned to the caller like any other error
Get_Reply_NilIsError(repo, r, db) ==
  IF r.err # Nil THEN Return(Zero(repo.T), r.err, r.err, db)
  ELSE Get_Decoded(deserialize(repo.T, r.val, repo.isPrimitive), r, db)

\* Get, from the reply r of repo.client.Get on
Get_Reply(repo, r, db) ==
  IF r.err # Nil
  THEN IF r.err = RedisNil THEN Return(Zero(repo.T), Nil, r.err, db)
       ELSE Return(Zero(repo.T), r.err, r.err, db)
  ELSE Get_Decoded(deserialize(repo.T, r.val, repo.isPrimitive), r, db)

Impl_Get(repo, key, db, fail) ==
  IF Dispatch(repo, 0) # "default" THEN Forwarded(repo, db)
  ELSE OnClient(repo, db, fail,
                Get_Reply(repo, Client_Get(db, key, fail), db))

\* the reply r of a store call that writes, returned as it is
Written(r) == Return(NilV, r.err, r.err, r.db)

Set_Serialized(s, key, db, fail) ==
  IF s.err # Nil THEN Result("returned", NilV, s.err, 0, Nil, db)
  ELSE Written(Client_Set(db, key, s.data, fail))

Impl_Set(repo, key, value, expiration, db, fail) ==
  IF Dispatch(repo, 0) # "default" THEN Forwarded(repo, db)
  ELSE OnClient(repo, db, fail,
                Set_Serialized(serialize(value), key, db, fail))

\* Exists_Reply with the error of the store call dropped: false, nil
Exists_Reply_Swallow(r, db) == Return(BoolV(r.err = Nil /\ r.n > 0), Nil, r.err, db)

\* Exists, from the reply r of repo.client.Exists on
Exists_Reply(r, db) ==
  IF r.err # Nil THEN Return(BoolV(FALSE), r.err, r.err, db)
  ELSE Return(BoolV(r.n > 0), Nil, r.err, db)

Impl_Exists(repo, key, db, fail) ==
  IF Dispatch(repo, 0) # "default" THEN Forwarded(repo, db)
  ELSE OnClient(repo, db, fail,
                Exists_Reply(Client_Exists(db, key, fail), db))

Impl_Del(repo, key, db, fail) ==
  IF Dispatch(repo, 0) # "default" THEN Forwarded(repo, db)
  ELSE OnClient(repo, db, fail,
                Written(Client_Del(db, key, fail)))

HGet_Decoded(u, r, db) ==
  IF u.err # Nil THEN Return(NilV, u.err, r.err, db)
  ELSE Return(RefV(u.value), Nil, r.err, db)

HGet_Reply(r, db) ==
  IF r.err # Nil
  THEN IF r.err = RedisNil THEN Return(NilV, Nil, r.err, db)
       ELSE Return(NilV, r.err, r.err, db)
  ELSE HGet_Decoded(Unmarshal(r.val, "any"), r, db)

Impl_HGet(repo, key, field, db, fail) ==
  IF Dispatch(repo, 0) # "default" THEN Forwarded(repo, db)
  ELSE OnClient(repo, db, fail,
                HGet_Reply(Client_HGet(db, key, field, fail), db))

ErrDeserializeField == "failed to deserialize field "

\* the loop of HGetAll and HGetFields over the fields the store returned:
\* decoded is the set of <<field, Unmarshal of its text>>, first the field
\* the loop fails on, if any
Collected(decoded, first, r, db) ==
  IF first # {}
  THEN LET pr == CHOOSE x \in first : TRUE
       IN Return(NilV, ErrDeserializeField \o pr[1] \o ": " \o pr[2].err, r.err, db)
  ELSE Return(MapV({<<pr[1], pr[2].value>> : pr \in decoded}), Nil, r.err, db)

\* the range over a map visits it in no fixed order; the model's hashes
\* hold at most one field, so at most one can fail
HGetAll_Decoded(decoded, r, db) ==
  Collected(decoded, {pr \in decoded : pr[2].err # Nil}, r, db)

HGetAll_Reply(r, db) ==
  IF r.err # Nil THEN Return(NilV, r.err, r.err, db)
  ELSE HGetAll_Decoded({<<pr[1], Unmarshal(pr[2], "any")>> : pr \in r.map}, r, db)

\* HGetAll has no self check
Impl_HGetAll(repo, key, db, fail) ==
  OnClient(repo, db, fail, HGetAll_Reply(Client_HGetAll(db, key, fail), db))

\* the slots of the reply that are not nil, decoded, with their position
HGetFields_Decoded(decoded, fields, r, db) ==
  Collected({<<fields[x[1]], x[2]>> : x \in decoded},
            {<<fields[x[1]], x[2]>> : x \in
               {y \in decoded : y[2].err # Nil
                                /\ \A z \in decoded : z[2].err # Nil => y[1] <= z[1]}},
            r, db)

HGetFields_Reply(fields, r, db) ==
  IF r.err # Nil THEN Return(NilV, r.err, r.err, db)
  ELSE HGetFields_Decoded({<<i, Unmarshal(r.vals[i].s, "any")>> :
                             i \in {x \in 1..Len(r.vals) : ~r.vals[x].nil}},
                          fields, r, db)

Impl_HGetFields(repo, key, fields, db, fail) ==
  IF Dispatch(repo, 0) # "default" THEN Forwarded(repo, db)
  ELSE OnClient(repo, db, fail,
                HGetFields_Reply(fields, Client_HMGet(db, key, fields, fail), db))

HSet_Serialized(s, key, field, db, fail) ==
  IF s.err # Nil THEN Result("returned", NilV, s.err, 0, Nil, db)
  ELSE Written(Client_HSet(db, key, field, s.data, fail))

Impl_HSet(repo, key, field, value, db, fail) ==
  IF Dispatch(repo, 0) # "default" THEN Forwarded(repo, db)
  ELSE IF key = "" \/ field = "" THEN Result("returned", NilV, ErrKeyField, 0, Nil, db)
  ELSE OnClient(repo, db, fail,
                HSet_Serialized(IF value.t = "string"
                                THEN [data |-> value.v, err |-> Nil]
                                ELSE Marshal(value),
                                key, field, db, fail))

ErrSerializeHashField == "failed to serialize field "

\* the text HMSet stores for a value: a string as it is, another value as
\* sonic.Marshal writes it
HashText(value) ==
  IF value.t = "string" THEN [data |-> value.v, err |-> Nil] ELSE Marshal(value)

\* HMSet after its loop over the map: bad are the entries the loop fails
\* on.  The range visits the map in no fixed order; the model's maps hold
\* at most one entry.
HMSet_Serialized(fields, bad, key, db, fail) ==
  IF bad # {}
  THEN LET i == CHOOSE x \in bad : TRUE
       IN Result("returned", NilV,
                 ErrSerializeHashField \o fields[i][1] \o ": " \o HashText(fields[i][2]).err,
                 0, Nil, db)
  ELSE Written(Client_HMSet(db, key,
                            [i \in 1..Len(fields) |->
                               <<fields[i][1], HashText(fields[i][2]).data>>],
                            fail))

\* HMSet checks neither the key nor the field names
Impl_HMSet(repo, key, fields, db, fail) ==
  IF Dispatch(repo, 0) # "default" THEN Forwarded(repo, db)
  ELSE OnClient(repo, db, fail,
                HMSet_Serialized(fields,
                                  {i \in 1..Len(fields) : HashText(fields[i][2]).err # Nil},
                                  key, db, fail))

HExists_Reply(r, db) == Return(BoolV(r.b), r.err, r.err, db)

Impl_HExists(repo, key, field, db, fail) ==
  IF Dispatch(repo, 0) # "default" THEN Forwarded(repo, db)
  ELSE OnClient(repo, db, fail,
                HExists_Reply(Client_HExists(db, key, field, fail), db))

(***************************************************************************)
(* CachePipeline.  A pipeline is the record [err, pipe]: the sticky error  *)
(* and the commands queued on the redis.Pipeliner, oldest first.  A queued *)
(* command is [op, keys, fields, data, n]; fields is a sequence of pairs   *)
(* <<field name, serialized value>> (no value for HDEL).                   *)
(***************************************************************************)
ErrKeyFields == "key cannot be empty and fields must not be empty"
ErrKeyNoField == "key cannot be empty and at least one field must be specified"
ErrNoKey == "at least one key must be specified"
ErrKey == "key cannot be empty"
ErrSerializeField == "failed to serialize field"

Cmd(op, keys, fields, data, n) ==
  [op |-> op, keys |-> keys, fields |-> fields, data |-> data, n |-> n]

QueueFirst(p, cmd) == [p EXCEPT !.pipe = <<cmd>> \o @]

Queue(p, cmd) == [p EXCEPT !.pipe = Append(@, cmd)]

Fail(p, err) == [p EXCEPT !.err = err]

CachePipeline_HSet(p, key, field, value) ==
  IF p.err # Nil THEN p
  ELSE LET p1 == IF key = "" \/ field = "" THEN Fail(p, ErrKeyField) ELSE p
           s == serialize(value)
       IN IF s.err # Nil THEN Fail(p1, s.err)
          ELSE Queue(p1, Cmd("HSET", <<key>>, <<<<field, s.data>>>>, <<>>, 0))

\* A Go map[string]any is a sequence of <<name, value>> pairs with distinct
\* names; the loop over it visits the pairs in the order of the sequence.
\* The positions of the map whose value does not serialize:
BadFields(fields) == {i \in 1..Len(fields) : serialize(fields[i][2]).err # Nil}

FirstBad(fields) == CHOOSE i \in BadFields(fields) : \A j \in BadFields(fields) : i <= j

CachePipeline_HMSet(p, key, fields) ==
  IF p.err # Nil THEN p
  ELSE IF key = "" \/ Len(fields) = 0 THEN Fail(p, ErrKeyFields)
  ELSE IF BadFields(fields) # {}
       THEN Fail(p, ErrSerializeField \o " " \o fields[FirstBad(fields)][1]
                      \o ": " \o serialize(fields[FirstBad(fields)][2]).err)
  ELSE Queue(p, Cmd("HMSET", <<key>>,
                    [i \in 1..Len(fields) |->
                       <<fields[i][1], serialize(fields[i][2]).data>>], <<>>, 0))

\* the names of a field list, as pairs without data
Names(fields) == [i \in 1..Len(fields) |-> <<fields[i], <<>>>>]

CachePipeline_HDel(p, key, fields) ==
  IF p.err # Nil THEN p
  ELSE IF key = "" \/ Len(fields) = 0 THEN Fail(p, ErrKeyNoField)
  ELSE Queue(p, Cmd("HDEL", <<key>>, Names(fields), <<>>, 0))

CachePipeline_Del_NoSticky(p, keys) ==
  IF Len(keys) = 0 THEN Fail(p, ErrNoKey)
  ELSE Queue(p, Cmd("DEL", keys, <<>>, <<>>, 0))

CachePipeline_Del(p, keys) ==
  IF p.err # Nil THEN p
  ELSE IF Len(keys) = 0 THEN Fail(p, ErrNoKey)
  ELSE Queue(p, Cmd("DEL", keys, <<>>, <<>>, 0))

CachePipeline_Set(p, key, value, expiration) ==
  IF p.err # Nil THEN p
  ELSE IF key = "" THEN Fail(p, ErrKey)
  ELSE LET s == serialize(value)
       IN IF s.err # Nil THEN Fail(p, s.err)
          ELSE Queue(p, Cmd("SET", <<key>>, <<>>, s.data, expiration))

CachePipeline_Expire_Dropped(p, key, expiration) ==
  IF p.err # Nil THEN p
  ELSE IF key = "" THEN Fail(p, ErrKey)
  ELSE p

CachePipeline_Expire(p, key, expiration) ==
  IF p.err # Nil THEN p
  ELSE IF key = "" THEN Fail(p, ErrKey)
  ELSE Queue(p, Cmd("EXPIRE", <<key>>, <<>>, <<>>, expiration))

CachePipeline_IncrBy(p, key, amount) ==
  IF p.err # Nil THEN p
  ELSE IF key = "" THEN Fail(p, ErrKey)
  ELSE Queue(p, Cmd("INCRBY", <<key>>, <<>>, <<>>, amount))

CachePipeline_DecrBy(p, key, amount) ==
  IF p.err # Nil THEN p
  ELSE IF key = "" THEN Fail(p, ErrKey)
  ELSE Queue(p, Cmd("DECRBY", <<key>>, <<>>, <<>>, amount))

\* Exec and ExecAndDiscard first look at the sticky error: with one they
\* return it at once (exec = FALSE), without one they call p.pipe.Exec.
CachePipeline_Exec_NoSticky(p) == [exec |-> TRUE, cmds |-> <<>>, err |-> Nil]

CachePipeline_Exec(p) ==
  IF p.err # Nil THEN [exec |-> FALSE, cmds |-> <<>>, err |-> p.err]
  ELSE [exec |-> TRUE, cmds |-> <<>>, err |-> Nil]

CachePipeline_ExecAndDiscard(p) ==
  IF p.err # Nil THEN [exec |-> FALSE, cmds |-> <<>>, err |-> p.err]
  ELSE [exec |-> TRUE, cmds |-> <<>>, err |-> Nil]

\* what each of them returns from the reply r = [cmds, err] of p.pipe.Exec
Exec_Return(r) == [cmds |-> r.cmds, err |-> r.err]

ExecAndDiscard_Return_Swallow(r) == [cmds |-> <<>>, err |-> Nil]

ExecAndDiscard_Return(r) == [cmds |-> <<>>, err |-> r.err]

(***************************************************************************)
(* State of the pipeline model.                                            *)
(*   p        the CachePipeline                                            *)
(*   calls    the builder calls made while p.err was nil, since the last   *)
(*            batch was sent (history)                                     *)
(*   ncalls   the number of builder calls made since then                  *)
(*   pc       "idle", or the method ("Exec", "ExecAndDiscard") that is     *)
(*            blocked in p.pipe.Exec                                       *)
(*   sent     the batch handed to the store by the call in progress        *)
(*   inflight the commands of that batch the store has not applied yet     *)
(*   log      the commands the store applied since the batch was sent,     *)
(*            each with its origin: the pipeline or another client         *)
(*   ret      what the last call on the pipeline returned                  *)
(***************************************************************************)
VARIABLES p, calls, ncalls, pc, sent, inflight, log, ret

pipeVars == <<p, calls, ncalls, pc, sent, inflight, log, ret>>

(***************************************************************************)
(* State of the repository model.                                          *)
(*   repo     the repository CreateCacheRepository returned                *)
(*   db       the Redis store                                              *)
(*   rret     what the last call on the repository did and returned, with  *)
(*            (history) whether what it asked for was absent from the      *)
(*            store, and which of the fields it asked for were             *)
(*   lastSet  (history) the key and value of the last Set that succeeded,  *)
(*            as long as no other write changed the store                  *)
(*   lastHSet (history) the same for the last HSet, with its field         *)
(***************************************************************************)
VARIABLES repo, db, rret, lastSet, lastHSet

repoVars == <<repo, db, rret, lastSet, lastHSet>>

(***************************************************************************)
(* The serialization helpers, called on their own.                         *)
(*   codec    the last call of serialize, deserialize or isPrimitiveType:  *)
(*            its arguments and what it returned                           *)
(***************************************************************************)
VARIABLES codec

codecVars == <<codec>>

(***************************************************************************)
(* The scan loops of GetKeysByPatterns and HScan.                          *)
(*   scan     the call in progress or last made: its position (pc), its    *)
(*            arguments, the locals cursor and keys / result of the loop,  *)
(*            (history) the scan calls made so far with their replies and  *)
(*            the names the store has returned, and what the call returned *)
(***************************************************************************)
VARIABLES scan

scanVars == <<scan>>

(***************************************************************************)
(* State of the database helpers.                                          *)
(*   nc       the call of NewConnection: where it stands in its retry loop *)
(*            (pc), its locals count, conn and err, what it returned       *)
(*            (wrapper, rerr), and (history) the reply of every            *)
(*            driver.Connect call it made                                  *)
(***************************************************************************)
VARIABLES nc

connVars == <<nc>>

(***************************************************************************)
(* The pipelines obtained from one repository.                             *)
(*   pipes       the CachePipeline structs NewPipeline returned, in order: *)
(*               [pipe, client, ctx, err], pipe being the address of the   *)
(*               struct's redis.Pipeliner                                  *)
(*   pipeliners  the heap of redis.Pipeliner objects: the client each was  *)
(*               made by and the batch it has queued                       *)
(*   acted       (history) the pipeline the last call was made on, 0 for   *)
(*               NewPipeline                                               *)
(***************************************************************************)
VARIABLES pipes, pipeliners, acted

heapVars == <<pipes, pipeliners, acted>>

(***************************************************************************)
(* State of the configuration loader and of the transaction helper.        *)
(*   load     the call of LoadCfg: the file it is given, the files on disk *)
(*            (disk), the process environment before (env) and after       *)
(*            (loaded) the call, how the call ended and what it returned   *)
(*   tx       ExecuteInTransaction: where the call stands (pc), its local  *)
(*            err, whether it is panicking, what it returned (outcome,     *)
(*            ret), the rows written in the open transaction (pending) and *)
(*            committed to the database (committed), the calls made so far *)
(*            (ncalls) and (history) what the current call saw: the error  *)
(*            of Begin, how fn ended (fn, fnerr), the error of Commit, and *)
(*            the calls it made (events)                                   *)
(***************************************************************************)
VARIABLES load, tx

loadVars == <<load>>

txVars == <<tx>>

restVars == <<connVars, heapVars, loadVars, txVars>>

vars == <<pipeVars, repoVars, codecVars, scanVars, restVars>>

\* the context bound at construction, once canceled
Canceled == "canceled"

\* Fails with the store calls made under a context of their own
Fails_OwnContext(ctx) == BOOLEAN

\* Every store call is handed repo.ctx.  The client takes a connection
\* under that context before it sends anything: with the context canceled
\* the call fails, otherwise it may fail or not.
Fails(ctx) == IF ctx = Canceled THEN {TRUE} ELSE BOOLEAN

Keys == {"", "k"}
FieldNames == {"", "f"}
NoValue == [t |-> "none", v |-> 0]
PipeValues == {StringV(<<"v">>), ChanV}
FieldMaps == {<<>>, <<<<"f", StructV(1)>>>>, <<<<"", StringV(<<"v">>)>>>>,
              <<<<"f", ChanV>>>>}
FieldLists == {<<>>, <<"f">>, <<"">>}
KeyLists == {<<>>, <<"k">>, <<"">>}
Expirations == {60}
Amounts == {1}
ExecOps == {"Exec", "ExecAndDiscard"}

Call(op, keys, fields, value, n) ==
  [op |-> op, keys |-> keys, fields |-> fields, value |-> value, n |-> n]

\* ret: the method, the error and the results it returned, the round trips
\* it made and the error of the round trip, and (history) the builder calls
\* and the batch it was called with
NoRet ==
  [op |-> "none", err |-> Nil, cmds |-> <<>>, trips |-> 0, rt |-> Nil,
   calls |-> <<>>, batch |-> <<>>]

\* the pipeline NewPipeline returns: no error, nothing queued
NewPipeline == [err |-> Nil, pipe |-> <<>>]

StoreKeys == {"k"}
\* the keys the hash writers are called with, and the keys of the store
HashKeys == {"", "k"}
DbKeys == StoreKeys \cup HashKeys

NoRRet ==
  [op |-> "none", key |-> "", fields |-> <<>>, outcome |-> "returned", value |-> NilV,
   err |-> Nil, calls |-> 0, reply |-> Nil, absent |-> FALSE, missing |-> {}]

NoSet == [ok |-> FALSE, key |-> "", value |-> NilV]

NoHSet == [ok |-> FALSE, key |-> "", field |-> "", value |-> NilV]

\* a new pipeline, not yet used
PipeIdle ==
  /\ p = NewPipeline
  /\ calls = <<>>
  /\ ncalls = 0
  /\ pc = "idle"
  /\ sent = <<>>
  /\ inflight = <<>>
  /\ log = <<>>
  /\ ret = NoRet

\* a new repository of type T over an empty store
RepoCreated(T, redisClient, ctx, self) ==
  /\ repo = CreateCacheRepository(T, redisClient, ctx, self)
  /\ db = [key \in DbKeys |-> NoEntry]
  /\ rret = NoRRet
  /\ lastSet = NoSet
  /\ lastHSet = NoHSet

\* the same, made with a client and a context
RepoIdle(T, self) == RepoCreated(T, "client", "ctx", self)

\* codec: the helper called, the declared type T, the value, text and flag
\* it was given or computed, and the result [value, err, panic] it left
NoCodec ==
  [op |-> "none", T |-> "string", value |-> NilV, data |-> <<>>, isPrimitive |-> FALSE,
   res |-> [value |-> NilV, err |-> Nil, panic |-> FALSE]]

CodecIdle == codec = NoCodec

NoScan ==
  [pc |-> "idle", op |-> "none", pattern |-> "*", count |-> 0, cursor |-> 0,
   keys |-> <<>>, result |-> {}, log |-> <<>>, seen |-> {},
   outcome |-> "returned", err |-> Nil]

ScanIdle == scan = NoScan

NoConn ==
  [pc |-> "idle", count |-> 0, conn |-> Nil, err |-> Nil, wrapper |-> Nil,
   rerr |-> Nil, attempts |-> <<>>]

ConnIdle == nc = NoConn

HeapIdle == pipes = <<>> /\ pipeliners = <<>> /\ acted = 0

\* an environment variable: unset, or set to a text
Unset == [set |-> FALSE, text |-> <<>>]
SetTo(text) == [set |-> TRUE, text |-> text]

EnvVars == {"POSTGRES_HOST", "POSTGRES_PORT", "POSTGRES_SSLMODE", "REDIS_PORT", "REDIS_DB"}

NoEnv == [v \in EnvVars |-> Unset]

\* StdLibConfiguration{}; User, Password, Database and RedisHost are read
\* like Host
NoCfg == [Host |-> <<>>, Port |-> 0, SSLMode |-> <<>>, RedisPort |-> 0, RedisDB |-> 0]

NoLoad ==
  [pc |-> "idle", file |-> "", disk |-> {}, env |-> NoEnv, loaded |-> NoEnv,
   outcome |-> "returned", cfg |-> NoCfg]

LoadIdle == load = NoLoad

NoTx ==
  [pc |-> "idle", err |-> Nil, panic |-> FALSE, ret |-> Nil, outcome |-> "returned",
   begin |-> Nil, fn |-> "none", fnerr |-> Nil, commit |-> Nil,
   pending |-> 0, committed |-> 0, ncalls |-> 0, events |-> <<>>]

TxIdle == tx = NoTx

RestIdle == ConnIdle /\ HeapIdle /\ LoadIdle /\ TxIdle

InitPipe == PipeIdle /\ RepoIdle("string", "repo") /\ CodecIdle /\ ScanIdle /\ RestIdle

\* one builder call: q is the pipeline the method leaves behind
Builder(call, q) ==
  /\ pc = "idle"
  /\ ncalls < MaxCalls
  /\ p' = q
  /\ calls' = IF p.err = Nil THEN Append(calls, call) ELSE calls
  /\ ncalls' = ncalls + 1
  /\ ret' = NoRet
  /\ log' = <<>>
  /\ UNCHANGED <<pc, sent, inflight, repoVars, codecVars, scanVars, restVars>>

PipeHSet ==
  \E key \in Keys, field \in FieldNames, value \in PipeValues :
    Builder(Call("HSet", <<key>>, <<field>>, value, 0),
            CachePipeline_HSet(p, key, field, value))

PipeHMSet ==
  \E key \in Keys, fields \in FieldMaps :
    Builder(Call("HMSet", <<key>>, [i \in 1..Len(fields) |-> fields[i][1]], NoValue, 0),
            CachePipeline_HMSet(p, key, fields))

PipeHDel ==
  \E key \in Keys, fields \in FieldLists :
    Builder(Call("HDel", <<key>>, fields, NoValue, 0),
            CachePipeline_HDel(p, key, fields))

PipeDel ==
  \E keys \in KeyLists :
    Builder(Call("Del", keys, <<>>, NoValue, 0), CachePipeline_Del(p, keys))

PipeSet ==
  \E key \in Keys, value \in PipeValues, expiration \in Expirations :
    Builder(Call("Set", <<key>>, <<>>, value, expiration),
            CachePipeline_Set(p, key, value, expiration))

PipeExpire ==
  \E key \in Keys, expiration \in Expirations :
    Builder(Call("Expire", <<key>>, <<>>, NoValue, expiration),
            CachePipeline_Expire(p, key, expiration))

PipeIncrBy ==
  \E key \in Keys, amount \in Amounts :
    Builder(Call("IncrBy", <<key>>, <<>>, NoValue, amount),
            CachePipeline_IncrBy(p, key, amount))

PipeDecrBy ==
  \E key \in Keys, amount \in Amounts :
    Builder(Call("DecrBy", <<key>>, <<>>, NoValue, amount),
            CachePipeline_DecrBy(p, key, amount))

\* Exec or ExecAndDiscard is called; plan is what the method decides first.
\* The call returns without a round trip on the sticky error, and when
\* nothing is queued: redis.Pipeline.Exec then answers (nil, nil) itself.
ExecCall(op, plan) ==
  /\ pc = "idle"
  /\ plan.exec /\ p.pipe # <<>> => repo.ctx # Canceled
  /\ IF ~plan.exec
     THEN /\ ret' = [NoRet EXCEPT !.op = op, !.err = plan.err, !.calls = calls]
          /\ log' = <<>>
          /\ UNCHANGED <<p, calls, ncalls, pc, sent, inflight, repoVars, codecVars, scanVars, restVars>>
     ELSE IF p.pipe = <<>>
     THEN /\ ret' = [NoRet EXCEPT !.op = op, !.calls = calls]
          /\ log' = <<>>
          /\ UNCHANGED <<p, calls, ncalls, pc, sent, inflight, repoVars, codecVars, scanVars, restVars>>
     ELSE /\ pc' = op
          /\ sent' = p.pipe
          /\ inflight' = p.pipe
          /\ p' = [p EXCEPT !.pipe = <<>>]
          /\ log' = <<>>
          /\ ret' = NoRet
          /\ UNCHANGED <<calls, ncalls, repoVars, codecVars, scanVars, restVars>>

Exec == ExecCall("Exec", CachePipeline_Exec(p))

ExecAndDiscard == ExecCall("ExecAndDiscard", CachePipeline_ExecAndDiscard(p))

\* Exec or ExecAndDiscard is called with commands queued and the context
\* canceled: p.pipe.Exec(p.ctx) takes the batch off the pipeline and fails
\* before anything is sent.
ExecCanceled ==
  /\ pc = "idle"
  /\ repo.ctx = Canceled
  /\ p.pipe # <<>>
  /\ \E op \in ExecOps :
       LET plan == IF op = "Exec" THEN CachePipeline_Exec(p)
                   ELSE CachePipeline_ExecAndDiscard(p)
           r == [cmds |-> p.pipe, err |-> ErrStore]
           out == IF op = "Exec" THEN Exec_Return(r) ELSE ExecAndDiscard_Return(r)
       IN /\ plan.exec
          /\ ret' = [op |-> op, err |-> out.err, cmds |-> out.cmds, trips |-> 0,
                     rt |-> r.err, calls |-> calls, batch |-> p.pipe]
  /\ p' = [p EXCEPT !.pipe = <<>>]
  /\ calls' = <<>>
  /\ ncalls' = 0
  /\ log' = <<>>
  /\ UNCHANGED <<pc, sent, inflight, repoVars, codecVars, scanVars, restVars>>

\* the store applies the next command of the batch
ServerApply ==
  /\ pc \in ExecOps
  /\ inflight # <<>>
  /\ log' = Append(log, [src |-> "pipe", cmd |-> Head(inflight)])
  /\ inflight' = Tail(inflight)
  /\ UNCHANGED <<p, calls, ncalls, pc, sent, ret, repoVars, codecVars, scanVars, restVars>>

NOther == Cardinality({i \in 1..Len(log) : log[i].src = "other"})

\* the store applies a command of another client
OtherClient ==
  /\ pc \in ExecOps
  /\ NOther < MaxOther
  /\ log' = Append(log, [src |-> "other", cmd |-> Cmd("SET", <<"k">>, <<>>, <<"x">>, 0)])
  /\ UNCHANGED <<p, calls, ncalls, pc, sent, inflight, ret, repoVars, codecVars, scanVars, restVars>>

\* p.pipe.Exec returns its reply r and the blocked method returns
PipeReturn(r) ==
  /\ LET out == IF pc = "Exec" THEN Exec_Return(r) ELSE ExecAndDiscard_Return(r)
     IN ret' = [op |-> pc, err |-> out.err, cmds |-> out.cmds, trips |-> 1,
                rt |-> r.err, calls |-> calls, batch |-> sent]
  /\ pc' = "idle"
  /\ calls' = <<>>
  /\ ncalls' = 0
  /\ sent' = <<>>
  /\ inflight' = <<>>
  /\ UNCHANGED <<p, log, repoVars, codecVars, scanVars, restVars>>

\* every command was applied: the reply holds one result per command
ExecReturn ==
  /\ pc \in ExecOps
  /\ inflight = <<>>
  /\ PipeReturn([cmds |-> sent, err |-> Nil])

\* the round trip fails (connection lost, time out)
ExecFail ==
  /\ pc \in ExecOps
  /\ PipeReturn([cmds |-> sent, err |-> ErrStore])

NextPipe ==
  \/ PipeHSet \/ PipeHMSet \/ PipeHDel \/ PipeDel
  \/ PipeSet \/ PipeExpire \/ PipeIncrBy \/ PipeDecrBy
  \/ Exec \/ ExecAndDiscard
  \/ ServerApply \/ OtherClient \/ ExecReturn \/ ExecFail

SpecPipe == InitPipe /\ [][NextPipe]_vars

(***************************************************************************)
(* The repository's operations.                                            *)
(***************************************************************************)
Selves == {"repo", "embedding", "override", "nil"}

RepoValues(T) ==
  CASE T = "string" -> {StringV(<<>>), StringV(<<"h", "i">>), StringV(<<"4", "2">>),
                        StringV(<<"\"", "h", "i", "\"">>)}
    [] T = "int" -> {IntV(0), IntV(42), IntV(-7)}
    [] T = "float64" -> {FloatV(0), FloatV(15)}
    [] T = "bool" -> {BoolV(FALSE), BoolV(TRUE)}
    [] T = "bytes" -> {BytesV(<<1, 2>>)}
    [] T = "struct" -> {StructV(0), StructV(1)}
    [] T = "ptr" -> {PtrV(<<>>), PtrV(<<1>>)}

HashFields == {"f"}
AskedFields == {"f", "missing"}
AskedLists == {<<"f">>, <<"missing">>, <<"f", "missing">>}
HashValues == {StringV(<<"h", "i">>), IntV(42), ChanV}
\* texts another client of the store may leave under a key
OtherTexts == {<<"{">>, NullText}

\* what CreateCacheRepository may be handed as client and as context
Clients == {"client", Nil}
Contexts == {"ctx", Nil}

\* a repository of any value type and self made with a client and a
\* context, or one made without either
InitRepo ==
  /\ PipeIdle /\ CodecIdle /\ ScanIdle /\ RestIdle
  /\ \/ \E T \in ValueTypes, self \in Selves : RepoIdle(T, self)
     \/ \E redisClient \in Clients, ctx \in Contexts :
          /\ redisClient = Nil \/ ctx = Nil
          /\ RepoCreated("string", redisClient, ctx, "repo")

\* one call on the repository: res is what the method did
Invoke(op, key, fields, res, absent, missing) ==
  /\ rret' = [op |-> op, key |-> key, fields |-> fields, outcome |-> res.outcome,
              value |-> res.value, err |-> res.err, calls |-> res.calls,
              reply |-> res.reply, absent |-> absent, missing |-> missing]
  /\ db' = res.db
  /\ lastSet' = IF res.db # db THEN NoSet ELSE lastSet
  /\ lastHSet' = IF res.db # db THEN NoHSet ELSE lastHSet
  /\ UNCHANGED <<repo, pipeVars, codecVars, scanVars, restVars>>

RepoGet ==
  \E key \in StoreKeys, fail \in Fails(repo.ctx) :
    Invoke("Get", key, <<>>, Impl_Get(repo, key, db, fail), db[key].t = "none", {})

\* a call of Set: res is what the method did
InvokeSet(key, value, res) ==
  /\ rret' = [NoRRet EXCEPT !.op = "Set", !.key = key, !.outcome = res.outcome,
                            !.err = res.err, !.calls = res.calls, !.reply = res.reply]
  /\ db' = res.db
  /\ lastSet' = IF res.outcome = "returned" /\ res.calls = 1 /\ res.err = Nil
                THEN [ok |-> TRUE, key |-> key, value |-> value]
                ELSE lastSet
  /\ lastHSet' = IF res.db # db THEN NoHSet ELSE lastHSet
  /\ UNCHANGED <<repo, pipeVars, codecVars, scanVars, restVars>>

RepoSet ==
  \E key \in StoreKeys, value \in RepoValues(repo.T), expiration \in Expirations,
     fail \in Fails(repo.ctx) :
    InvokeSet(key, value, Impl_Set(repo, key, value, expiration, db, fail))

RepoDel ==
  \E key \in StoreKeys, fail \in Fails(repo.ctx) :
    Invoke("Del", key, <<>>, Impl_Del(repo, key, db, fail), db[key].t = "none", {})

RepoExists ==
  \E key \in StoreKeys, fail \in Fails(repo.ctx) :
    Invoke("Exists", key, <<>>, Impl_Exists(repo, key, db, fail), db[key].t = "none", {})

RepoHGet ==
  \E key \in StoreKeys, field \in AskedFields, fail \in Fails(repo.ctx) :
    Invoke("HGet", key, <<field>>, Impl_HGet(repo, key, field, db, fail),
           ~HasField(db[key], field), {})

RepoHGetAll ==
  \E key \in StoreKeys, fail \in Fails(repo.ctx) :
    Invoke("HGetAll", key, <<>>, Impl_HGetAll(repo, key, db, fail), db[key].t = "none", {})

\* the fields of the list that the hash under key lacks
Missing(key, fields) ==
  {fields[i] : i \in {j \in 1..Len(fields) : ~HasField(db[key], fields[j])}}

RepoHGetFields ==
  \E key \in StoreKeys, fields \in AskedLists, fail \in Fails(repo.ctx) :
    Invoke("HGetFields", key, fields, Impl_HGetFields(repo, key, fields, db, fail),
           \A i \in 1..Len(fields) : ~HasField(db[key], fields[i]), Missing(key, fields))

\* a call of HSet: res is what the method did
InvokeHSet(key, field, value, res) ==
  /\ rret' = [NoRRet EXCEPT !.op = "HSet", !.key = key, !.fields = <<field>>,
                            !.outcome = res.outcome, !.err = res.err,
                            !.calls = res.calls, !.reply = res.reply]
  /\ db' = res.db
  /\ lastSet' = IF res.db # db THEN NoSet ELSE lastSet
  /\ lastHSet' = IF res.outcome = "returned" /\ res.calls = 1 /\ res.err = Nil
                 THEN [ok |-> TRUE, key |-> key, field |-> field, value |-> value]
                 ELSE lastHSet
  /\ UNCHANGED <<repo, pipeVars, codecVars, scanVars, restVars>>

RepoHSet ==
  \E key \in HashKeys, field \in HashFields \cup {""}, value \in HashValues,
     fail \in Fails(repo.ctx) :
    InvokeHSet(key, field, value, Impl_HSet(repo, key, field, value, db, fail))

\* the maps HMSet is called with, as sequences of <<field, value>>
HashMaps ==
  {<<>>, <<<<"f", IntV(42)>>>>, <<<<"", StringV(<<"h", "i">>)>>>>, <<<<"f", ChanV>>>>}

RepoHMSet ==
  \E key \in HashKeys, fields \in HashMaps, fail \in Fails(repo.ctx) :
    Invoke("HMSet", key, [i \in 1..Len(fields) |-> fields[i][1]],
           Impl_HMSet(repo, key, fields, db, fail), FALSE, {})

RepoHExists ==
  \E key \in StoreKeys, field \in AskedFields, fail \in Fails(repo.ctx) :
    Invoke("HExists", key, <<field>>, Impl_HExists(repo, key, field, db, fail),
           ~HasField(db[key], field), {})

\* another client of the store writes a text under a key
StoreWrite ==
  \E key \in StoreKeys, text \in OtherTexts :
    /\ db' = [db EXCEPT ![key] = Entry("string", text, {})]
    /\ lastSet' = IF db' # db THEN NoSet ELSE lastSet
    /\ lastHSet' = IF db' # db THEN NoHSet ELSE lastHSet
    /\ rret' = NoRRet
    /\ UNCHANGED <<repo, pipeVars, codecVars, scanVars, restVars>>

NextRepo ==
  \/ RepoGet \/ RepoSet \/ RepoDel \/ RepoExists
  \/ RepoHGet \/ RepoHGetAll \/ RepoHGetFields \/ RepoHSet \/ RepoHMSet \/ RepoHExists
  \/ StoreWrite

SpecRepo == InitRepo /\ [][NextRepo]_vars

(***************************************************************************)
(* The serialization helpers as a state machine: each step is one call of  *)
(* serialize, of deserialize, of the two in a row, or of isPrimitiveType,  *)
(* on inputs drawn from the sets below.                                    *)
(***************************************************************************)
\* texts a store may hold: empty, raw words, numbers, JSON, broken JSON
CodecTexts ==
  {<<>>, <<"h", "i">>, <<"4", "2">>, <<"1", ".", "5">>, <<"t", "r", "u", "e">>,
   <<"{">>, NullText, ObjectText(1), <<"\"", "h", "i", "\"">>, BytesText(<<1, 2>>)}

\* Go types beside those of ValueTypes that a value handed to
\* isPrimitiveType may have: the other numeric widths, and composites
NumericWidths ==
  {"int8", "int16", "int32", "int64", "uint", "uint8", "uint16", "uint32", "uint64",
   "float32"}
Composites == {"slice", "map"}

\* the values isPrimitiveType is asked about
ClassifiedValues ==
  UNION {RepoValues(T) : T \in ValueTypes}
    \cup {[t |-> k, v |-> 1] : k \in NumericWidths}
    \cup {[t |-> k, v |-> 0] : k \in Composites} \cup {ChanV}

CodecResult(op, T, value, data, isPrimitive, res) ==
  [NoCodec EXCEPT !.op = op, !.T = T, !.value = value, !.data = data,
                  !.isPrimitive = isPrimitive, !.res = res]

\* what serialize returned, as a result
Serialized(s) == [value |-> NilV, err |-> s.err, panic |-> FALSE]

CodecStep(c) ==
  /\ codec' = c
  /\ UNCHANGED <<pipeVars, repoVars, scanVars, restVars>>

CodecSerialize ==
  \E T \in ValueTypes : \E value \in RepoValues(T) \cup {ChanV} :
    CodecStep(CodecResult("serialize", T, value, serialize(value).data,
                          isPrimitiveType(value), Serialized(serialize(value))))

CodecDeserialize ==
  \E T \in ValueTypes, data \in CodecTexts, isPrimitive \in BOOLEAN :
    CodecStep(CodecResult("deserialize", T, NilV, data, isPrimitive,
                          deserialize(T, data, isPrimitive)))

\* serialize, then deserialize of its text into the same declared type,
\* with the flag the classification of the value gives
CodecRoundTrip ==
  \E T \in ValueTypes : \E value \in RepoValues(T) :
    /\ serialize(value).err = Nil
    /\ CodecStep(CodecResult("roundtrip", T, value, serialize(value).data,
                             isPrimitiveType(value),
                             deserialize(T, serialize(value).data, isPrimitiveType(value))))

CodecClassify ==
  \E value \in ClassifiedValues :
    CodecStep(CodecResult("isPrimitiveType", value.t, value, <<>>,
                          isPrimitiveType(value), NoCodec.res))

InitCodec == PipeIdle /\ RepoIdle("string", "repo") /\ CodecIdle /\ ScanIdle /\ RestIdle

NextCodec == CodecSerialize \/ CodecDeserialize \/ CodecRoundTrip \/ CodecClassify

SpecCodec == InitCodec /\ [][NextCodec]_vars

(***************************************************************************)
(* GetKeysByPatterns and HScan as a state machine: a call enters the loop, *)
(* each step is one scan call of the loop with the reply the store gives.  *)
(* The store holds the names of Keyspace (keys, or the fields of the hash  *)
(* HScan reads), applies the pattern itself, returns every matching name   *)
(* at least once before it answers cursor 0, and may return a name in      *)
(* more than one reply.                                                    *)
(***************************************************************************)
Keyspace == {"a", "ab", "b"}
Patterns == {"*", "a*"}

Matching(pattern) ==
  CASE pattern = "*" -> Keyspace
    [] pattern = "a*" -> {"a", "ab"}

\* the cursors the store hands out while its iteration goes on
Cursors == {5, 9}
\* the count HScan is called with
Counts == {10}
\* the value of every field of the hash HScan reads
FieldValue == "v"

\* the replies of one scan call: up to two names
Batches(names) ==
  {<<>>} \cup {<<k>> : k \in names}
         \cup {<<k[1], k[2]>> : k \in {x \in names \X names : x[1] # x[2]}}

Range(seq) == {seq[i] : i \in 1..Len(seq)}

ScanReply(keys, cursor, err) == [keys |-> keys, cursor |-> cursor, err |-> err]

\* (history) the scan call sent and the reply to it
Logged(sc, reply) ==
  [cursor |-> sc.cursor, count |-> sc.count, next |-> reply.cursor, err |-> reply.err]

\* GetKeysByPatterns_Round with the next scan call made from the cursor of
\* the call before
GetKeysByPatterns_Round_StaleCursor(sc, reply) ==
  IF reply.err # Nil
  THEN [sc EXCEPT !.pc = "done", !.keys = <<>>, !.err = reply.err]
  ELSE [sc EXCEPT !.keys = @ \o reply.keys,
                  !.pc = IF reply.cursor = 0 THEN "done" ELSE "loop"]

\* one turn of the loop of GetKeysByPatterns, from the reply of
\* repo.client.Scan(repo.ctx, cursor, pattern, 100) on
GetKeysByPatterns_Round(sc, reply) ==
  IF reply.err # Nil
  THEN [sc EXCEPT !.pc = "done", !.keys = <<>>, !.err = reply.err]
  ELSE [sc EXCEPT !.keys = @ \o reply.keys,
                  !.cursor = reply.cursor,
                  !.pc = IF reply.cursor = 0 THEN "done" ELSE "loop"]

\* one turn of the loop of HScan, from the reply of repo.client.HScan on
HScan_Round(sc, reply) ==
  IF reply.err # Nil
  THEN [sc EXCEPT !.pc = "done", !.result = {}, !.err = reply.err]
  ELSE [sc EXCEPT !.result = {pr \in @ : pr[1] \notin Range(reply.keys)}
                               \cup {<<k, FieldValue>> : k \in Range(reply.keys)},
                  !.cursor = reply.cursor,
                  !.pc = IF reply.cursor = 0 THEN "done" ELSE "loop"]

\* GetKeysByPatterns up to its loop
GetKeysByPatterns_Enter(repository, pattern) ==
  IF Dispatch(repository, 0) # "default"
  THEN [NoScan EXCEPT !.pc = "done", !.op = "GetKeysByPatterns", !.pattern = pattern,
                      !.outcome = Dispatch(repository, 0)]
  ELSE [NoScan EXCEPT !.pc = "loop", !.op = "GetKeysByPatterns", !.pattern = pattern,
                      !.count = 100]

\* HScan up to its loop: it has no self check
HScan_Enter(repository, pattern, count) ==
  [NoScan EXCEPT !.pc = "loop", !.op = "HScan", !.pattern = pattern, !.count = count]

ScanStep(sc) ==
  /\ scan' = sc
  /\ UNCHANGED <<pipeVars, repoVars, codecVars, restVars>>

CallGetKeysByPatterns ==
  /\ scan.pc = "idle"
  /\ \E pattern \in Patterns : ScanStep(GetKeysByPatterns_Enter(repo, pattern))

CallHScan ==
  /\ scan.pc = "idle"
  /\ \E pattern \in Patterns, count \in Counts : ScanStep(HScan_Enter(repo, pattern, count))

\* the loop's next scan call, with its reply
Round(reply) ==
  ScanStep([(IF scan.op = "HScan" THEN HScan_Round(scan, reply)
             ELSE GetKeysByPatterns_Round(scan, reply))
            EXCEPT !.log = Append(@, Logged(scan, reply)),
                   !.seen = @ \cup Range(reply.keys)])

\* the store answers the scan call: cursor 0 once every matching name has
\* been returned, at the latest in reply MaxRounds
ScanAnswered ==
  /\ scan.pc = "loop"
  /\ repo.ctx # Canceled
  /\ \E keys \in Batches(Matching(scan.pattern)), cursor \in Cursors \cup {0} :
       /\ cursor = 0 => scan.seen \cup Range(keys) = Matching(scan.pattern)
       /\ Len(scan.log) + 1 >= MaxRounds => cursor = 0
       /\ Round(ScanReply(keys, cursor, Nil))

\* the scan call fails
ScanFailed ==
  /\ scan.pc = "loop"
  /\ Round(ScanReply(<<>>, 0, ErrStore))

InitScan == PipeIdle /\ CodecIdle /\ ScanIdle /\ RestIdle /\ \E self \in Selves : RepoIdle("string", self)

NextScan == CallGetKeysByPatterns \/ CallHScan \/ ScanAnswered \/ ScanFailed

SpecScan == InitScan /\ [][NextScan]_vars

\* the loop is sequential code: a call in the loop makes its next scan call
SpecScanLive == SpecScan /\ WF_vars(ScanAnswered \/ ScanFailed)

(***************************************************************************)
(* Cancellation of the context bound at construction.  The repository, its *)
(* scan loops and the pipelines made from it share repo.ctx and nothing    *)
(* else: a behaviour exercises one of the three, and the context is        *)
(* canceled at any moment of it.                                           *)
(***************************************************************************)
CancelContext ==
  /\ repo.ctx = "ctx"
  /\ repo' = [repo EXCEPT !.ctx = Canceled]
  /\ UNCHANGED <<db, rret, lastSet, lastHSet, pipeVars, codecVars, scanVars, restVars>>

RepoUnused == rret = NoRRet /\ db = [key \in DbKeys |-> NoEntry]

InitCancel == PipeIdle /\ RepoIdle("string", "repo") /\ CodecIdle /\ ScanIdle /\ RestIdle

NextCancel ==
  \/ CancelContext
  \/ PipeIdle /\ ScanIdle /\ NextRepo
  \/ PipeIdle /\ RepoUnused /\ NextScan
  \/ RepoUnused /\ ScanIdle /\ (NextPipe \/ ExecCanceled)

SpecCancel == InitCancel /\ [][NextCancel]_vars

(***************************************************************************)
(* database.NewConnection as a state machine: a call enters the retry      *)
(* loop, each step is one call of driver.Connect with the reply the driver *)
(* gives, the last step is the return.                                     *)
(***************************************************************************)
\* for count := 0; count < 5; count++
MaxAttempts == 5

\* the connections a driver may open, and the errors it may report
Gorms == {"db1", "db2"}
ConnectErrors == {"refused", "timeout"}

ErrConnection == "connection failed after multiple attempts"

\* the reply of driver.Connect(cfg): a Conn and an error
Connected(gorm) == [gorm |-> gorm, err |-> Nil]
Refused(err) == [gorm |-> Nil, err |-> err]

\* NewConnection_Attempt going round the loop again after a success
NewConnection_Attempt_NoBreak(c, reply) ==
  [c EXCEPT !.conn = reply.gorm, !.err = reply.err,
            !.count = @ + 1,
            !.pc = IF c.count + 1 < MaxAttempts THEN "loop" ELSE "after",
            !.attempts = Append(@, reply)]

\* one turn of the loop, from the reply of driver.Connect on: break on
\* success, else log, sleep, count++ and test count < 5
NewConnection_Attempt(c, reply) ==
  IF reply.err = Nil
  THEN [c EXCEPT !.conn = reply.gorm, !.err = Nil, !.pc = "after",
                 !.attempts = Append(@, reply)]
  ELSE [c EXCEPT !.conn = reply.gorm, !.err = reply.err,
                 !.count = @ + 1,
                 !.pc = IF c.count + 1 < MaxAttempts THEN "loop" ELSE "after",
                 !.attempts = Append(@, reply)]

\* after the loop
NewConnection_Return(c) ==
  IF c.err # Nil
  THEN [c EXCEPT !.pc = "done", !.wrapper = Nil, !.rerr = ErrConnection]
  ELSE [c EXCEPT !.pc = "done", !.wrapper = c.conn, !.rerr = Nil]

ConnStep(c) ==
  /\ nc' = c
  /\ UNCHANGED <<pipeVars, repoVars, codecVars, scanVars, heapVars, loadVars, txVars>>

CallNewConnection ==
  /\ nc.pc = "idle"
  /\ ConnStep([NoConn EXCEPT !.pc = "loop"])

\* driver.Connect opens a connection
ConnectSucceeds ==
  /\ nc.pc = "loop"
  /\ \E gorm \in Gorms : ConnStep(NewConnection_Attempt(nc, Connected(gorm)))

\* driver.Connect reports an error
ConnectFails ==
  /\ nc.pc = "loop"
  /\ \E err \in ConnectErrors : ConnStep(NewConnection_Attempt(nc, Refused(err)))

ReturnNewConnection ==
  /\ nc.pc = "after"
  /\ ConnStep(NewConnection_Return(nc))

InitConn == InitPipe

NextConn == CallNewConnection \/ ConnectSucceeds \/ ConnectFails \/ ReturnNewConnection

SpecConn == InitConn /\ [][NextConn]_vars

(***************************************************************************)
(* Several pipelines of one repository.  NewPipeline allocates a           *)
(* redis.Pipeliner and a CachePipeline struct holding it; the builder      *)
(* methods and Exec act on the struct they are called on and, through its  *)
(* pipe field, on the pipeliner it points to.                              *)
(***************************************************************************)
MaxPipes == 2
MaxQueued == 2

\* repo.client.Pipeline(): a new pipeliner, at the next free address
Pipeliner(client) == [client |-> client, batch |-> <<>>]

\* Impl_NewPipeline with one pipeliner kept by the repository and handed to
\* every pipeline
Impl_NewPipeline_Shared(repository, hp) ==
  [pipeline |-> [pipe |-> 1, ctx |-> repository.ctx, err |-> Nil],
   pipeliners |-> IF hp = <<>> THEN <<Pipeliner(repository.client)>> ELSE hp]

\* &CachePipeline{pipe: repo.client.Pipeline(), ctx: repo.ctx}
Impl_NewPipeline(repository, hp) ==
  [pipeline |-> [pipe |-> Len(hp) + 1, ctx |-> repository.ctx, err |-> Nil],
   pipeliners |-> Append(hp, Pipeliner(repository.client))]

\* the error and the queued batch of a CachePipeline
View(s, hp) == [err |-> s.err, pipe |-> hp[s.pipe].batch]

\* what the builder methods may leave of the pipeline v
BuilderCalls(v) ==
  {CachePipeline_HSet(v, key, "f", StringV(<<"v">>)) : key \in Keys}
    \cup {CachePipeline_Del(v, keys) : keys \in {<<>>, <<"k">>}}

\* a method called on pipeline i leaves it as q
Stored(i, q) ==
  /\ pipes' = [pipes EXCEPT ![i].err = q.err]
  /\ pipeliners' = [pipeliners EXCEPT ![pipes[i].pipe].batch = q.pipe]
  /\ acted' = i
  /\ UNCHANGED <<pipeVars, repoVars, codecVars, scanVars, connVars, loadVars, txVars>>

RepoNewPipeline ==
  /\ Len(pipes) < MaxPipes
  /\ repo.client # Nil
  /\ LET made == Impl_NewPipeline(repo, pipeliners)
     IN /\ pipes' = Append(pipes, made.pipeline)
        /\ pipeliners' = made.pipeliners
  /\ acted' = 0
  /\ UNCHANGED <<pipeVars, repoVars, codecVars, scanVars, connVars, loadVars, txVars>>

PipesBuilder ==
  \E i \in 1..Len(pipes) :
    /\ Len(View(pipes[i], pipeliners).pipe) < MaxQueued
    /\ \E q \in BuilderCalls(View(pipes[i], pipeliners)) : Stored(i, q)

\* Exec on pipeline i: the sticky error, or p.pipe.Exec, which takes the
\* batch off the pipeliner
PipesExec ==
  \E i \in 1..Len(pipes) :
    LET v == View(pipes[i], pipeliners)
    IN Stored(i, IF CachePipeline_Exec(v).exec THEN [v EXCEPT !.pipe = <<>>] ELSE v)

InitPipes == InitPipe

NextPipes == RepoNewPipeline \/ PipesBuilder \/ PipesExec

SpecPipes == InitPipes /\ [][NextPipes]_vars

(***************************************************************************)
(* LoadCfg.  An input is the file argument, the environment files on disk  *)
(* and the process environment; texts are sequences of characters.         *)
(***************************************************************************)
ENABLE == <<"e", "n", "a", "b", "l", "e">>
DISABLE == <<"d", "i", "s", "a", "b", "l", "e">>

ErrAtoi == "strconv.Atoi: invalid syntax"

\* os.Getenv: the text of the variable, empty when it is unset
Getenv(e, v) == IF e[v].set THEN e[v].text ELSE <<>>

\* strconv.Atoi: decimal digits with an optional sign
Atoi(s) ==
  IF AllDigits(s) THEN [n |-> DigitsVal(s), err |-> Nil]
  ELSE IF Len(s) > 1 /\ s[1] \in {"+", "-"} /\ AllDigits(Tail(s))
  THEN [n |-> IF s[1] = "-" THEN 0 - DigitsVal(Tail(s)) ELSE DigitsVal(Tail(s)),
        err |-> Nil]
  ELSE [n |-> 0, err |-> ErrAtoi]

\* a file of the disk is [name, vars]: its assignments
OnDisk(disk, name) == \E f \in disk : f.name = name
Contents(disk, name) == (CHOOSE f \in disk : f.name = name).vars

\* godotenv.Load: the assignments of the file, for the variables the
\* process environment does not hold yet
godotenv_Load(e, assigned) == [v \in EnvVars |-> IF e[v].set THEN e[v] ELSE assigned[v]]

Loaded(outcome, cfg, e) == [outcome |-> outcome, cfg |-> cfg, env |-> e]

\* LoadCfg, from the environment e left by godotenv.Load on
LoadCfg_Parse(e, port, redisPort, redisDB) ==
  IF port.err # Nil THEN Loaded("returned", NoCfg, e)
  ELSE IF redisPort.err # Nil THEN Loaded("returned", NoCfg, e)
  ELSE IF redisDB.err # Nil THEN Loaded("returned", NoCfg, e)
  ELSE Loaded("returned",
              [Host |-> Getenv(e, "POSTGRES_HOST"), Port |-> port.n,
               SSLMode |-> IF Getenv(e, "POSTGRES_SSLMODE") = ENABLE THEN ENABLE
                           ELSE DISABLE,
               RedisPort |-> redisPort.n, RedisDB |-> redisDB.n],
              e)

LoadCfg_Loaded(e) ==
  LoadCfg_Parse(e, Atoi(Getenv(e, "POSTGRES_PORT")), Atoi(Getenv(e, "REDIS_PORT")),
                Atoi(Getenv(e, "REDIS_DB")))

\* the file LoadCfg reads
EnvFile(file) == IF file = "" THEN ".env" ELSE file

\* LoadCfg(file): log.Fatalf ends the process ("exit") when the file cannot
\* be loaded
LoadCfg(file, disk, e) ==
  IF ~OnDisk(disk, EnvFile(file)) THEN Loaded("exit", NoCfg, e)
  ELSE LoadCfg_Loaded(godotenv_Load(e, Contents(disk, EnvFile(file))))

PortText == <<"5", "4", "3", "2">>
RedisPortText == <<"6", "3", "7", "9">>
HostText == <<"d", "b">>

\* the assignments of an environment file, with the port it gives
FileVars(port) ==
  [NoEnv EXCEPT !["POSTGRES_HOST"] = SetTo(HostText), !["POSTGRES_PORT"] = SetTo(port),
                !["REDIS_PORT"] = SetTo(RedisPortText), !["REDIS_DB"] = SetTo(<<"0">>)]

FilePorts == {PortText, <<"a", "b", "c">>}

\* the disks: each of .env and .env.test is absent or present
Disks ==
  {a \cup b :
     a \in {{}} \cup {{[name |-> ".env", vars |-> FileVars(port)]} : port \in FilePorts},
     b \in {{}} \cup {{[name |-> ".env.test", vars |-> FileVars(port)]} : port \in FilePorts}}

\* the process environments
Environments ==
  {[NoEnv EXCEPT !["POSTGRES_HOST"] = host, !["POSTGRES_PORT"] = port,
                 !["POSTGRES_SSLMODE"] = ssl, !["REDIS_PORT"] = redisPort,
                 !["REDIS_DB"] = redisDB] :
     host \in {Unset, SetTo(<<"h">>)},
     port \in {Unset, SetTo(<<"7", "0">>), SetTo(<<"x">>)},
     ssl \in {Unset, SetTo(ENABLE)},
     redisPort \in {Unset, SetTo(<<"8", "0">>)},
     redisDB \in {Unset, SetTo(<<"1">>)}}

FileArguments == {"", ".env.test"}

CallLoadCfg ==
  /\ load.pc = "idle"
  /\ LET r == LoadCfg(load.file, load.disk, load.env)
     IN load' = [load EXCEPT !.pc = "done", !.outcome = r.outcome, !.cfg = r.cfg,
                             !.loaded = r.env]
  /\ UNCHANGED <<pipeVars, repoVars, codecVars, scanVars, connVars, heapVars, txVars>>

InitLoad ==
  /\ PipeIdle /\ RepoIdle("string", "repo") /\ CodecIdle /\ ScanIdle
  /\ ConnIdle /\ HeapIdle /\ TxIdle
  /\ \E file \in FileArguments, disk \in Disks, e \in Environments :
       load = [NoLoad EXCEPT !.file = file, !.disk = disk, !.env = e]

NextLoad == CallLoadCfg

SpecLoad == InitLoad /\ [][NextLoad]_vars

(***************************************************************************)
(* ExecuteInTransaction as a state machine: BeginTransaction, the callback *)
(* fn working on the transaction, the rollback or the commit that follows  *)
(* it, and the deferred function that runs when the method returns or      *)
(* panics.                                                                 *)
(***************************************************************************)
MaxTx == 3
MaxWrites == 2

BeginErrors == {"begin failed"}
FnErrors == {"fn failed", "fn refused"}
CommitErrors == {"commit failed"}

\* repo.RollbackTransaction(tx): what the transaction wrote is dropped; on
\* a transaction already finished it changes nothing
Rollback(t) == [t EXCEPT !.pending = 0, !.events = Append(@, "Rollback")]

\* tx, err := repo.BeginTransaction(); if err != nil { return err }
ExecuteInTransaction_Begin(t, err) ==
  IF err # Nil
  THEN [t EXCEPT !.pc = "done", !.err = err, !.begin = err, !.ret = err,
                 !.events = Append(@, "Begin")]
  ELSE [t EXCEPT !.pc = "fn", !.events = <<"Begin", "fn">>]

\* ExecuteInTransaction_Fn with the transaction committed whatever fn
\* returned
ExecuteInTransaction_Fn_Commits(t, how, err) ==
  CASE how = "panic" -> [t EXCEPT !.pc = "deferred", !.fn = how, !.panic = TRUE]
    [] how = "err" -> [t EXCEPT !.pc = "commit", !.fn = how, !.fnerr = err, !.err = err]
    [] how = "nil" -> [t EXCEPT !.pc = "commit", !.fn = how, !.err = Nil]

\* err = fn(tx); if err != nil { repo.RollbackTransaction(tx); return err }
\* fn panics, returns an error or returns nil
ExecuteInTransaction_Fn(t, how, err) ==
  CASE how = "panic" -> [t EXCEPT !.pc = "deferred", !.fn = how, !.panic = TRUE]
    [] how = "err" -> [Rollback(t) EXCEPT !.pc = "deferred", !.fn = how, !.fnerr = err,
                                          !.err = err, !.ret = err]
    [] how = "nil" -> [t EXCEPT !.pc = "commit", !.fn = how, !.err = Nil]

\* return repo.CommitTransaction(tx): the result is returned, err is not
\* assigned
ExecuteInTransaction_Commit(t, err) ==
  [t EXCEPT !.pc = "deferred", !.commit = err, !.ret = err,
            !.committed = IF err = Nil THEN @ + t.pending ELSE @,
            !.pending = 0,
            !.events = Append(@, "Commit")]

\* defer func() { if r := recover(); r != nil || err != nil { rollback } }():
\* a recovered panic makes the method return its zero result, nil
ExecuteInTransaction_Deferred(t) ==
  IF t.panic
  THEN [Rollback(t) EXCEPT !.pc = "done", !.panic = FALSE, !.ret = Nil]
  ELSE IF t.err # Nil THEN [Rollback(t) EXCEPT !.pc = "done"]
  ELSE [t EXCEPT !.pc = "done"]

TxStep(t) ==
  /\ tx' = t
  /\ UNCHANGED <<pipeVars, repoVars, codecVars, scanVars, connVars, heapVars, loadVars>>

\* a call of ExecuteInTransaction, with the reply of repo.gorm.Begin()
CallExecuteInTransaction ==
  /\ tx.pc \in {"idle", "done"}
  /\ tx.ncalls < MaxTx
  /\ \E err \in BeginErrors \cup {Nil} :
       TxStep(ExecuteInTransaction_Begin(
                [NoTx EXCEPT !.committed = tx.committed, !.ncalls = tx.ncalls + 1], err))

\* fn writes a row in the transaction
FnWrites ==
  /\ tx.pc = "fn"
  /\ tx.pending < MaxWrites
  /\ TxStep([tx EXCEPT !.pending = @ + 1])

FnReturns ==
  /\ tx.pc = "fn"
  /\ TxStep(ExecuteInTransaction_Fn(tx, "nil", Nil))

FnFails ==
  /\ tx.pc = "fn"
  /\ \E err \in FnErrors : TxStep(ExecuteInTransaction_Fn(tx, "err", err))

FnPanics ==
  /\ tx.pc = "fn"
  /\ TxStep(ExecuteInTransaction_Fn(tx, "panic", Nil))

\* tx.Commit() answers
TxCommit ==
  /\ tx.pc = "commit"
  /\ \E err \in CommitErrors \cup {Nil} : TxStep(ExecuteInTransaction_Commit(tx, err))

TxDeferred ==
  /\ tx.pc = "deferred"
  /\ TxStep(ExecuteInTransaction_Deferred(tx))

InitTx == InitPipe

NextTx ==
  \/ CallExecuteInTransaction \/ FnWrites \/ FnReturns \/ FnFails \/ FnPanics
  \/ TxCommit \/ TxDeferred

SpecTx == InitTx /\ [][NextTx]_vars

(***************************************************************************)
(* Properties of the pipeline.                                             *)
(***************************************************************************)
\* the Redis command a builder method queues
OpOf(method) ==
  CASE method = "HSet" -> "HSET" [] method = "HMSet" -> "HMSET"
    [] method = "HDel" -> "HDEL" [] method = "Del" -> "DEL"
    [] method = "Set" -> "SET" [] method = "Expire" -> "EXPIRE"
    [] method = "IncrBy" -> "INCRBY" [] method = "DecrBy" -> "DECRBY"

\* cmd is the command of the builder call: same operation, keys, field
\* names and number
Matches(cmd, call) ==
  /\ cmd.op = OpOf(call.op)
  /\ cmd.keys = call.keys
  /\ [i \in 1..Len(cmd.fields) |-> cmd.fields[i][1]] = call.fields
  /\ cmd.n = call.n

\* batch holds exactly one command per call, in the order of the calls
Corresponds(batch, cs) ==
  /\ Len(batch) = Len(cs)
  /\ \A i \in 1..Len(batch) : Matches(batch[i], cs[i])

\* C1: once the pipeline's error is non-nil, no later step (a builder call
\* with any arguments, or an execution) queues a command or changes the
\* stored error: the first error wins.
C1_StickyErrorFreezes ==
  [][p.err # Nil => (p'.err = p.err /\ p'.pipe = p.pipe)]_vars

\* a builder call was made on a pipeline that already held an error
C1_Witness == p.err # Nil /\ ncalls > Len(calls)

\* C2: with a sticky error, Exec and ExecAndDiscard return exactly that
\* error and no results, make no round trip, are never blocked in the
\* pipeliner's Exec, and leave the error set.
C2_StickyExecNoRoundTrip ==
  p.err # Nil =>
    /\ pc = "idle"
    /\ ret.op \in ExecOps => (ret.err = p.err /\ ret.trips = 0 /\ ret.cmds = <<>>)

C2_Witness == p.err # Nil /\ ret.op = "ExecAndDiscard" /\ ret.err = p.err /\ p.pipe # <<>>

\* C3 (as claimed): a pipeline whose first call is HSet(key, "", v) holds
\* the empty-field validation error, for every v, and Exec returns it
\* without a round trip.
C3_HSetEmptyFieldValidationError ==
  (Len(calls) >= 1 /\ calls[1].op = "HSet" /\ calls[1].fields = <<"">>) =>
    /\ p.err = ErrKeyField
    /\ ret.op \in ExecOps => (ret.err = ErrKeyField /\ ret.trips = 0)

\* a builder call names an empty key or field, or an empty field map
HasEmptyIdentifier(call) ==
  \/ \E i \in 1..Len(call.keys) : call.keys[i] = ""
  \/ \E i \in 1..Len(call.fields) : call.fields[i] = ""
  \/ call.op = "HMSet" /\ call.fields = <<>>

\* C4 (as claimed): every builder call on a pipeline without an error that
\* is given an empty key, an empty field name or an empty field map sets
\* the pipeline error.
C4_EmptyIdentifierRejected ==
  \A i \in 1..Len(calls) : HasEmptyIdentifier(calls[i]) => p.err # Nil

\* C5: when the builder calls left no error, the batch Exec submits holds
\* exactly one command per builder call, in the order of the calls, and
\* Exec returns one result per command in that order.
C5_BatchInCallOrder ==
  /\ pc \in ExecOps => Corresponds(sent, calls)
  /\ (ret.op = "Exec" /\ ret.trips = 1) =>
       (Corresponds(ret.batch, ret.calls) /\ ret.cmds = ret.batch)

C5_Witness ==
  /\ ret.op = "Exec" /\ ret.trips = 1 /\ ret.err = Nil
  /\ Len(ret.calls) = 2 /\ ret.calls[1].op # ret.calls[2].op

\* C6: ExecAndDiscard on a pipeline built from n >= 1 valid builder calls
\* makes exactly one round trip, returns no results, and returns nil
\* exactly when the round trip reported no error.
C6_ExecAndDiscardOneRoundTrip ==
  (ret.op = "ExecAndDiscard" /\ p.err = Nil /\ Len(ret.calls) >= 1) =>
    /\ ret.trips = 1
    /\ ret.cmds = <<>>
    /\ ret.err = Nil <=> ret.rt = Nil

C6_Witness ==
  /\ ret.op = "ExecAndDiscard" /\ p.err = Nil /\ ret.err = Nil /\ ret.trips = 1
  /\ Len(ret.calls) = MaxCalls
  /\ \A i \in 1..Len(ret.calls) : ret.calls[i].op = "Set"

\* the commands of the batch the store has applied, in the order it applied them
PipeLog == SelectSeq(log, LAMBDA e : e.src = "pipe")

ReadOps == {"Get", "HGet", "HGetFields", "HGetAll", "Exists", "HExists"}

\* the last call reached the store, and the store answered it: with a
\* value, or with redis.Nil
StoreAnswered ==
  rret.outcome = "returned" /\ rret.calls = 1 /\ rret.reply \in {Nil, RedisNil}

\* what each read returns for nothing
EmptyResult(op) ==
  CASE op = "Get" -> Zero(repo.T)
    [] op = "HGet" -> NilV
    [] op \in {"HGetFields", "HGetAll"} -> MapV({})
    [] op \in {"Exists", "HExists"} -> BoolV(FALSE)

\* C8: absence is never an error.  When the store answered a read of a key
\* or field (for HGetFields: fields) it does not hold, the read returns a
\* nil error and the empty result of its kind; and a HGetFields that
\* succeeds returns no entry for a field the hash lacks.
C8_AbsenceIsNotAnError ==
  (rret.op \in ReadOps /\ StoreAnswered) =>
    /\ rret.absent => (rret.err = Nil /\ rret.value = EmptyResult(rret.op))
    /\ (rret.op = "HGetFields" /\ rret.err = Nil) =>
         \A pr \in rret.value.v : pr[1] \notin rret.missing

\* a Get of a key the store does not hold, answered with redis.Nil
C8_Witness ==
  /\ rret.op = "Get" /\ rret.absent /\ StoreAnswered
  /\ rret.reply = RedisNil /\ rret.err = Nil

\* the key of the last call holds the value of a Set that succeeded, no
\* write having touched the store since
HoldsLastSet == lastSet.ok /\ lastSet.key = rret.key

\* C9: Get tells a miss from a hit.  The result of a Get that the store
\* answered with the text of the last Set differs from the result of Get on
\* a key that does not exist.
C9_GetTellsMissFromHit ==
  (rret.op = "Get" /\ StoreAnswered /\ rret.reply = Nil /\ HoldsLastSet) =>
    LET miss == Impl_Get(repo, rret.key, [key \in DbKeys |-> NoEntry], FALSE)
    IN <<rret.value, rret.err>> # <<miss.value, miss.err>>

\* C10: Set then Get returns the value.  After a Set of v that succeeded
\* and no other write, a Get of the key that the store answers returns v
\* with a nil error.
C10_SetThenGetReturnsValue ==
  (rret.op = "Get" /\ rret.calls = 1 /\ rret.reply = Nil /\ HoldsLastSet) =>
    /\ rret.outcome = "returned"
    /\ rret.err = Nil
    /\ rret.value = lastSet.value

(***************************************************************************)
(* Properties of the serialization helpers.  codec is the last call.       *)
(***************************************************************************)
\* C11: the serialization policy round-trips.  deserialize of the text
\* serialize made of a value v, into the type of v and with the flag that
\* says whether v is primitive, returns v: no panic, no error.
C11_RoundTrip ==
  codec.op = "roundtrip" =>
    /\ ~codec.res.panic
    /\ codec.res.err = Nil
    /\ codec.res.value = codec.value

\* the types the serialization policy names primitive: string, the
\* numeric types of every width, bool and []byte
PolicyPrimitives == {"string", "int", "float64", "bool", "bytes"} \cup NumericWidths

\* C12: isPrimitiveType answers true exactly for a value whose type is
\* string, numeric (of any width), bool or []byte.
C12_ClassifiesNumericWidths ==
  codec.op = "isPrimitiveType" => (codec.isPrimitive <=> codec.T \in PolicyPrimitives)

\* C13: the flag recorded at construction is the classification of the
\* value type T itself, and no operation changes the flag, the client or
\* the context.
C13_FlagClassifiesT ==
  /\ [](repo.isPrimitive = isPrimitiveType(Zero(repo.T)))
  /\ [][repo' = repo]_vars

\* C14: deserialize never panics and never leaves a value of another type
\* than the declared one; malformed JSON decoded with isPrimitive false is
\* an error.
C14_DecodeFailsWithError ==
  codec.op = "deserialize" =>
    /\ ~codec.res.panic
    /\ codec.res.value.t = codec.T
    /\ (~codec.isPrimitive /\ Json(codec.data).k = "invalid") => codec.res.err # Nil

\* C15: HSet then HGetFields.  After a HSet of v under field that succeeded
\* and no other write, HGetFields(key, field, "missing") that the store
\* answers returns a nil error and the map with the one entry field -> v.
C15_HSetThenHGetFields ==
  (/\ rret.op = "HGetFields" /\ StoreAnswered
   /\ lastHSet.ok /\ lastHSet.key = rret.key
   /\ rret.fields = <<lastHSet.field, "missing">>) =>
    /\ rret.err = Nil
    /\ rret.value = MapV({<<lastHSet.field, lastHSet.value>>})

\* C16: HSet and HMSet reject an empty key and an empty field name.  A call
\* of either that is given one returns an error without a call to the
\* store; the error of HSet is the validation error.
C16_EmptyNamesRejected ==
  (/\ rret.op \in {"HSet", "HMSet"} /\ rret.outcome = "returned"
   /\ (rret.key = "" \/ \E i \in 1..Len(rret.fields) : rret.fields[i] = "")) =>
    /\ rret.calls = 0
    /\ rret.err # Nil
    /\ rret.op = "HSet" => rret.err = ErrKeyField

(***************************************************************************)
(* Properties of the scan loops.                                           *)
(***************************************************************************)
\* a call of GetKeysByPatterns has returned its keys
KeysReturned ==
  /\ scan.op = "GetKeysByPatterns" /\ scan.pc = "done"
  /\ scan.outcome = "returned" /\ scan.err = Nil

\* C17: GetKeysByPatterns returns exactly the keys that match the pattern,
\* each once, however the store spreads them over its replies.
C17_MatchingKeysOnce ==
  KeysReturned =>
    /\ Range(scan.keys) = Matching(scan.pattern)
    /\ Len(scan.keys) = Cardinality(Range(scan.keys))

\* the scan calls of GetKeysByPatterns so far follow the cursor protocol:
\* cursor 0 first, then the cursor of the reply before, 100 names asked
\* each time; no call follows a reply with cursor 0 or an error, and an
\* error is returned with no keys
CursorProtocol ==
  scan.op = "GetKeysByPatterns" =>
    LET n == Len(scan.log)
    IN /\ \A i \in 1..n :
            /\ scan.log[i].count = 100
            /\ scan.log[i].cursor = IF i = 1 THEN 0 ELSE scan.log[i - 1].next
       /\ \A i \in 1..(n - 1) : scan.log[i].err = Nil /\ scan.log[i].next # 0
       /\ (n > 0 /\ (scan.log[n].err # Nil \/ scan.log[n].next = 0)) => scan.pc = "done"
       /\ (n > 0 /\ scan.log[n].err # Nil) =>
            (scan.err = scan.log[n].err /\ scan.keys = <<>>)

\* C18: GetKeysByPatterns follows the cursor protocol, and a call that is
\* in its loop returns once the store answers cursor 0 or an error.
C18_CursorProtocol ==
  /\ []CursorProtocol
  /\ (scan.op = "GetKeysByPatterns" /\ scan.pc = "loop") ~> (scan.pc = "done")

\* a call that needed three scan calls, the last answered with cursor 0
C18_Witness ==
  /\ KeysReturned
  /\ Len(scan.log) >= 3
  /\ scan.log[1].next # scan.log[2].next
  /\ scan.log[Len(scan.log)].next = 0

(***************************************************************************)
(* Properties of construction and dispatch.                                *)
(***************************************************************************)
\* C19: CreateCacheRepository returns no repository without a client or
\* without a context.
C19_ClientAndContextPresent == repo.client # Nil /\ repo.ctx # Nil

\* C20: every operation forwards to self first.  On a repository whose
\* self is another object, a call of any method runs none of the default
\* logic (no store call is made by it), and with an overriding self it is
\* the override that runs.
C20_ForwardsToSelf ==
  (repo.self # "repo" /\ rret.op # "none") =>
    /\ rret.calls = 0
    /\ repo.self = "override" => rret.outcome = "override"

\* C21: self dispatch is not recursion.  A call on a concrete repository
\* that embeds the default implementation, passes itself as self and
\* overrides nothing terminates: the default method and self do not forward
\* the call to each other until the stack is exhausted.
C21_SelfDispatchTerminates ==
  (repo.self = "embedding" /\ rret.op # "none") => rret.outcome # "overflow"

(***************************************************************************)
(* Properties of cancellation.                                             *)
(***************************************************************************)
\* a repository method returns from a store call it just made
RepoCalled == rret' # rret /\ rret'.calls > 0

\* Exec or ExecAndDiscard is called and returns at once
ExecReturnsAtOnce == pc = "idle" /\ pc' = "idle" /\ ret' # ret /\ ret'.op \in ExecOps

C27_RejectedCallQueuesNothing ==
  [][(p.err = Nil /\ p'.err # Nil) => p'.pipe = p.pipe]_vars

C25_PipelinesAreSeparate ==
  [][/\ Len(pipes') > Len(pipes) =>
          LET new == pipes'[Len(pipes')]
          IN /\ View(new, pipeliners') = NewPipeline
             /\ new.ctx = repo.ctx
             /\ pipeliners'[new.pipe].client = repo.client
     /\ \A i \in 1..Len(pipes) :
          i # acted' => View(pipes'[i], pipeliners') = View(pipes[i], pipeliners)]_vars

\* two pipelines of one repository, the first with a sticky error and the
\* second with a command queued after it
C25_Witness ==
  /\ Len(pipes) = 2 /\ acted = 2
  /\ pipes[1].err # Nil
  /\ View(pipes[2], pipeliners) = [err |-> Nil, pipe |-> <<Cmd("DEL", <<"k">>, <<>>, <<>>, 0)>>]

(***************************************************************************)
(* Properties of LoadCfg.                                                  *)
(***************************************************************************)
\* the three numbers of the environment parse
NumbersSet(e) ==
  /\ Atoi(Getenv(e, "POSTGRES_PORT")).err = Nil
  /\ Atoi(Getenv(e, "REDIS_PORT")).err = Nil
  /\ Atoi(Getenv(e, "REDIS_DB")).err = Nil

\* C26: LoadCfg panics when POSTGRES_PORT is not an integer and when a
\* named environment file does not exist; called with no file argument in
\* an environment that holds the required variables it returns a
\* configuration with their values.
C26_LoadCfgPanicsOrLoads ==
  load.pc = "done" =>
    /\ (OnDisk(load.disk, EnvFile(load.file))
          /\ Atoi(Getenv(load.loaded, "POSTGRES_PORT")).err # Nil) =>
         load.outcome = "panic"
    /\ (load.file # "" /\ ~OnDisk(load.disk, load.file)) => load.outcome = "panic"
    /\ (load.file = "" /\ NumbersSet(load.env) /\ load.env["POSTGRES_HOST"].set) =>
         /\ load.outcome = "returned"
         /\ load.cfg.Port = Atoi(Getenv(load.env, "POSTGRES_PORT")).n
         /\ load.cfg.RedisPort = Atoi(Getenv(load.env, "REDIS_PORT")).n
         /\ load.cfg.RedisDB = Atoi(Getenv(load.env, "REDIS_DB")).n
         /\ load.cfg.Host = Getenv(load.env, "POSTGRES_HOST")

(***************************************************************************)
(* Properties of ExecuteInTransaction.                                     *)
(***************************************************************************)
\* the number of calls of one kind the current call has made
Count(name) == Cardinality({i \in 1..Len(tx.events) : tx.events[i] = name})

\* C28: if BeginTransaction fails, fn is never invoked and the begin error
\* is returned; otherwise fn runs exactly once, Commit is called if and
\* only if fn returned nil, and when fn returned an error the transaction
\* is rolled back, not committed, and that error is returned.
C28_CommitsIffFnSucceeds ==
  /\ Count("fn") <= 1
  /\ tx.begin # Nil => Count("fn") = 0
  /\ tx.pc = "done" =>
       /\ tx.begin # Nil => tx.ret = tx.begin /\ tx.ret \in BeginErrors
       /\ tx.begin = Nil =>
            /\ Count("fn") = 1
            /\ Count("Commit") >= 1 <=> tx.fn = "nil"
            /\ tx.fn = "err" =>
                 /\ Count("Rollback") >= 1 /\ Count("Commit") = 0
                 /\ tx.ret = tx.fnerr /\ tx.ret \in FnErrors

\* fn returned an error, which ExecuteInTransaction returned after the
\* rollback
C28_Witness ==
  /\ tx.pc = "done" /\ tx.fn = "err" /\ tx.ret = "fn refused"
  /\ tx.pending = 0 /\ tx.committed = 0 /\ tx.ncalls = 1

\* C29: every transaction ExecuteInTransaction began is finalized exactly
\* once: when the call is over exactly one Commit or Rollback was made on
\* it, and at no time was Rollback called twice or after a Commit.
C29_FinalizedExactlyOnce ==
  /\ Count("Rollback") <= 1
  /\ Count("Commit") <= 1
  /\ Count("Commit") = 1 => Count("Rollback") = 0
  /\ (tx.pc = "done" /\ tx.begin = Nil) => Count("Commit") + Count("Rollback") = 1

\* C30: ExecuteInTransaction returns a nil error only if Commit was called
\* and succeeded; when fn panics the transaction is rolled back and the
\* caller gets no normal return with a nil error.
C30_NilOnlyAfterCommit ==
  tx.pc = "done" =>
    /\ (tx.outcome = "returned" /\ tx.ret = Nil) =>
         Count("Commit") = 1 /\ tx.commit = Nil
    /\ tx.fn = "panic" =>
         /\ Count("Rollback") >= 1
         /\ ~(tx.outcome = "returned" /\ tx.ret = Nil)

====
